---- MODULE Spec2Model ----
(***************************************************************************)
(* EVMBootstrap (src/src/index.ts): the start/stop lifecycle around a      *)
(* one-shot setTimeout, and the asynchronous pipeline                      *)
(* _discoverBootstrapPeers that the timer callback (or a direct caller)    *)
(* runs.  One action is one JavaScript job: a host call, a timer callback, *)
(* or the continuation of an async function after one of its awaits has    *)
(* settled.  Collaborator outcomes (provider, contract, peer routing, peer *)
(* store, connection manager) are inputs drawn with \E.                    *)
(***************************************************************************)
EXTENDS Integers, Sequences, FiniteSets, TLC

\* ------------------------------------------------------------------ bounds
MaxArms == 2        \* setTimeout calls made by start() over a behaviour
MaxTimeout == 1     \* the configured delay, in clock ticks: 0..MaxTimeout
MaxPeerIds == 2     \* length of the array getAllPeerIds resolves with

\* ----------------------------------------------------------- configuration
\* options.chainId of the instance and the other id a provider may report
chainId == 1
otherChainId == 99
\* options.tagName / tagValue / tagTTL as configured by the test suite
DEFAULT_BOOTSTRAP_TAG_NAME == "evmbootstrap"
DEFAULT_BOOTSTRAP_TAG_VALUE == 50
Undefined == -1
\* the options the instance is constructed with: the tag left to its defaults
\* and no delay, or the tag of the test suite and the longest delay
Options ==
    { [timeout |-> 0, tagName |-> "", tagValue |-> Undefined, tagTTL |-> Undefined,
       chainId |-> chainId],
      [timeout |-> MaxTimeout, tagName |-> "mytag", tagValue |-> 42, tagTTL |-> 60000,
       chainId |-> chainId] }

\* identifier strings the contract may return; "bad" is not a peer id
PeerIdStrs == {"QmXb", "QmXc", "bad"}
NoPeerId == 0
\* peerIdFromString: the parsed PeerId, or NoPeerId when the parse throws
peerIdFromString(s) ==
    CASE s = "QmXb" -> 1
      [] s = "QmXc" -> 2
      [] OTHER -> NoPeerId

\* the PeerInfo peerRouting.findPeer resolves with for a PeerId
PeerInfoOf(id) == [id |-> id, multiaddrs |-> {<<"/ip4/127.0.0.1/tcp/4001/ipfs", id>>}]

NetworkIds == {chainId, otherChainId}

RECURSIVE SeqsUpTo(_, _)
SeqsUpTo(S, n) ==
    IF n = 0 THEN {<<>>}
    ELSE LET shorter == SeqsUpTo(S, n - 1)
         IN  shorter \cup {Append(q, x) : q \in {p \in shorter : Len(p) = n - 1}, x \in S}

PeerIdArrays == SeqsUpTo(PeerIdStrs, MaxPeerIds)

\* ------------------------------------------------------------------- state
VARIABLES
    timer,      \* this.timer: 0 is undefined, h > 0 the handle setTimeout returned
    list,       \* this.list: PeerInfo[]
    init,       \* this._init / this.timeout: the options given at construction
    timers,     \* the host's timer table: timers[h] is the timer with handle h
    runs,       \* every call of _discoverBootstrapPeers made so far
    onChain,    \* the identifiers the contract holds for contractIndex
    last        \* the job that produced this state

vars == <<timer, list, init, timers, runs, onChain, last>>

NoError == [message |-> "", detail |-> <<>>]
Error(message, detail) == [message |-> message, detail |-> detail]
Op(name) == [op |-> name, run |-> 0, ret |-> "void"]
RunOp(name, r) == [op |-> name, run |-> r, ret |-> "void"]

\* ----------------------------------------------------------------- helpers
CallsOf(run, name) == Cardinality({n \in DOMAIN run.trace : run.trace[n].op = name})
Pending(h) == timers[h].state = "pending"
PendingTimers == {h \in DOMAIN timers : Pending(h)}
\* how many calls of _discoverBootstrapPeers a behaviour explores: two, which may
\* overlap, when the contract holds at most one identifier; one when it holds more
RunCap == IF Len(onChain) <= 1 THEN 2 ELSE 1

\* a variant of isStarted that reports the timer only while it is still pending
isStartedWhilePending == timer # 0 /\ timer \in PendingTimers

\* EVMBootstrap.isStarted
isStarted == timer # 0

Init ==
    /\ timer = 0
    /\ list = <<>>
    /\ init \in Options
    /\ timers = <<>>
    /\ runs = <<>>
    /\ onChain \in PeerIdArrays
    /\ last = Op("new")

\* ------------------------------------------------------------ host actions
\* isStarted() called by the host
IsStartedCall ==
    /\ last' = [op |-> "isStarted", run |-> 0, ret |-> IF isStarted THEN "true" ELSE "false"]
    /\ UNCHANGED <<timer, list, init, onChain, timers, runs>>

\* setTimeout(cb, this.timeout): a new pending timer, its handle
SetTimeout(ms) == Append(timers, [state |-> "pending", remaining |-> ms])

\* a variant of start without the isStarted() guard: every call arms a timer
startAlways ==
    /\ Len(timers) < MaxArms
    /\ timers' = SetTimeout(init.timeout)
    /\ timer' = Len(timers')
    /\ last' = Op("start")
    /\ UNCHANGED <<list, init, onChain, runs>>

\* a variant of start that arms a timer only the first time in the lifetime
startOnlyFirst ==
    /\ IF isStarted \/ timers # <<>>
       THEN UNCHANGED <<timer, timers>>
       ELSE /\ Len(timers) < MaxArms
            /\ timers' = SetTimeout(init.timeout)
            /\ timer' = Len(timers')
    /\ last' = Op("start")
    /\ UNCHANGED <<list, init, onChain, runs>>

\* EVMBootstrap.start
start ==
    /\ IF isStarted
       THEN UNCHANGED <<timer, timers>>
       ELSE /\ Len(timers) < MaxArms
            /\ timers' = SetTimeout(init.timeout)
            /\ timer' = Len(timers')
    /\ last' = Op("start")
    /\ UNCHANGED <<list, init, onChain, runs>>

\* clearTimeout(h): a pending timer never fires; a fired one is left alone
ClearTimeout(h) ==
    IF h \in DOMAIN timers /\ Pending(h)
    THEN [timers EXCEPT ![h].state = "cleared"]
    ELSE timers

\* a variant of stop that forgets the handle without clearTimeout
stopNoClear ==
    /\ timer' = 0
    /\ last' = Op("stop")
    /\ UNCHANGED <<list, init, onChain, timers, runs>>

\* a variant of stop that also empties the list
stopResetsList ==
    /\ timers' = IF timer # 0 THEN ClearTimeout(timer) ELSE timers
    /\ timer' = 0
    /\ list' = <<>>
    /\ last' = Op("stop")
    /\ UNCHANGED <<init, onChain, runs>>
\* a variant of stop that refuses to stop what is not started
stopThrowsWhenIdle ==
    /\ timers' = IF timer # 0 THEN ClearTimeout(timer) ELSE timers
    /\ timer' = 0
    /\ last' = [op |-> "stop", run |-> 0, ret |-> IF timer # 0 THEN "void" ELSE "throws"]
    /\ UNCHANGED <<list, init, onChain, runs>>

\* EVMBootstrap.stop
stop ==
    /\ timers' = IF timer # 0 THEN ClearTimeout(timer) ELSE timers
    /\ timer' = 0
    /\ last' = Op("stop")
    /\ UNCHANGED <<list, init, onChain, runs>>

\* the clock advances by one tick
Tick ==
    /\ \E h \in PendingTimers : timers[h].remaining > 0
    /\ timers' = [h \in DOMAIN timers |->
                    IF Pending(h) /\ timers[h].remaining > 0
                    THEN [timers[h] EXCEPT !.remaining = @ - 1]
                    ELSE timers[h]]
    /\ last' = Op("tick")
    /\ UNCHANGED <<timer, list, init, onChain, runs>>

\* ------------------------------------------------ _discoverBootstrapPeers
\* One call of the async function: where it is suspended, what it was given,
\* and, in order, every collaborator call it has made, every rejection or throw
\* it got back, every push to the list, event and log call.
NewRun(origin) ==
    [origin |-> origin, pc |-> "entry", peerIds |-> <<>>, i |-> 0, k |-> 0,
     network |-> Undefined, trace |-> <<>>, thrown |-> NoError]

Do(run, c) == [run EXCEPT !.trace = Append(@, c)]
LogError(run, msg, detail) == Do(run, [op |-> "log.error", msg |-> msg, detail |-> detail])
Rejected(run, call) == Do(run, [op |-> "rejected", call |-> call])
Return(run) == [run EXCEPT !.pc = "done"]
Throw(run, err) == [run EXCEPT !.pc = "rejected", !.thrown = err]

\* a variant of the catch that logs the failure and throws it again
CatchOuterRethrows(run, err) ==
    Throw(LogError(run, "Could not discover bootstrap peers", err), Error(err, <<>>))

\* the catch of the try block that starts at the contract construction
CatchOuter(run, err) ==
    Return(LogError(run, "Could not discover bootstrap peers", err))

TagName == IF init.tagName = "" THEN DEFAULT_BOOTSTRAP_TAG_NAME ELSE init.tagName
TagValue == IF init.tagValue = Undefined THEN DEFAULT_BOOTSTRAP_TAG_VALUE ELSE init.tagValue

\* a variant of the merge arguments that always tags under the default name
MergeCallDefaultName(peerData) ==
    [op |-> "merge", id |-> peerData.id,
     tags |-> [name |-> DEFAULT_BOOTSTRAP_TAG_NAME, value |-> TagValue, ttl |-> init.tagTTL],
     multiaddrs |-> peerData.multiaddrs]

\* this.components.peerStore.merge(peerData.id, {tags, multiaddrs})
MergeCall(peerData) ==
    [op |-> "merge", id |-> peerData.id,
     tags |-> [name |-> TagName, value |-> TagValue, ttl |-> init.tagTTL],
     multiaddrs |-> peerData.multiaddrs]

\* for (const peerData of this.list): the iterator is at entry k of the list
\* as it is now; the body runs up to its await of peerStore.merge
MergeLoop(run, l, k) ==
    IF k > Len(l)
    THEN Return([run EXCEPT !.k = k])
    ELSE Do([run EXCEPT !.pc = "merge", !.k = k], MergeCall(l[k]))

\* a variant of the identifier loop in which an identifier that does not parse
\* ends the whole batch
RECURSIVE ResolveLoopAbort(_, _, _)
ResolveLoopAbort(run, l, i) ==
    IF i > Len(run.peerIds)
    THEN MergeLoop([run EXCEPT !.i = i], l, 1)
    ELSE IF peerIdFromString(run.peerIds[i]) = NoPeerId
    THEN CatchOuter([run EXCEPT !.i = i], <<run.peerIds[i], "parse">>)
    ELSE Do([run EXCEPT !.pc = "findPeer", !.i = i],
            [op |-> "findPeer", id |-> peerIdFromString(run.peerIds[i])])

\* for (const peerIdStr of peerIds): from identifier i on, up to the await of
\* findPeer; an identifier that does not parse is logged and skipped
RECURSIVE ResolveLoop(_, _, _)
ResolveLoop(run, l, i) ==
    IF i > Len(run.peerIds)
    THEN MergeLoop([run EXCEPT !.i = i], l, 1)
    ELSE IF peerIdFromString(run.peerIds[i]) = NoPeerId
    THEN ResolveLoop(LogError(run, "Could not lookup  multiaddrs for bootstrap peer",
                              <<run.peerIds[i], "parse">>), l, i + 1)
    ELSE Do([run EXCEPT !.pc = "findPeer", !.i = i],
            [op |-> "findPeer", id |-> peerIdFromString(run.peerIds[i])])

\* this.log('Found %d bootstrap peers ids', peerIds.length, peerIds)
Found(run) == Do(run, [op |-> "log", msg |-> "Found bootstrap peers ids", detail |-> run.peerIds])

\* a variant of the function entry without the "are we started" guard
EnterNoGuard(run) == Do([run EXCEPT !.pc = "getNetwork"], [op |-> "getNetwork"])
\* the function body up to its first await
Enter(run) ==
    IF timer = 0
    THEN Return(run)
    ELSE Do([run EXCEPT !.pc = "getNetwork"], [op |-> "getNetwork"])

\* a variant of AfterGetNetwork without the chain check
AfterGetNetworkNoCheck(run, network, contractThrows) ==
    LET seen == [run EXCEPT !.network = network]
    IN  IF contractThrows
        THEN CatchOuter(Do(seen, [op |-> "new Contract", ok |-> FALSE]), "boom")
        ELSE Do(Do([seen EXCEPT !.pc = "getAllPeerIds"], [op |-> "new Contract", ok |-> TRUE]),
                [op |-> "getAllPeerIds"])

\* a variant of AfterGetNetwork with the chain check inside the try block, so
\* that the catch swallows the wrong-network error
AfterGetNetworkInsideTry(run, network, contractThrows) ==
    LET seen == [run EXCEPT !.network = network]
    IN  IF network # init.chainId
        THEN CatchOuter(LogError(seen, "Ethereum provider is connected to chainId, but expected",
                                 <<network, init.chainId>>), "Wrong network")
        ELSE IF contractThrows
        THEN CatchOuter(Do(seen, [op |-> "new Contract", ok |-> FALSE]), "boom")
        ELSE Do(Do([seen EXCEPT !.pc = "getAllPeerIds"], [op |-> "new Contract", ok |-> TRUE]),
                [op |-> "getAllPeerIds"])

\* after await getNetwork(): the chain check, then the try block up to the
\* await of getAllPeerIds
AfterGetNetwork(run, network, contractThrows) ==
    LET seen == [run EXCEPT !.network = network]
    IN  IF network # init.chainId
        THEN Throw(LogError(seen, "Ethereum provider is connected to chainId, but expected",
                            <<network, init.chainId>>),
                   Error("Wrong network", <<init.chainId, network>>))
        ELSE IF contractThrows
        THEN CatchOuter(Do(seen, [op |-> "new Contract", ok |-> FALSE]), "boom")
        ELSE Do(Do([seen EXCEPT !.pc = "getAllPeerIds"], [op |-> "new Contract", ok |-> TRUE]),
                [op |-> "getAllPeerIds"])

\* a variant of AfterMerge without the "check we are still running" guard
AfterMergeNoGuard(run, l, dialThrows) ==
    LET peerData == l[run.k]
        announced == Do(Do(run, [op |-> "peer", detail |-> peerData]),
                        [op |-> "openConnection", id |-> peerData.id])
    IN  IF dialThrows
        THEN CatchOuter(Rejected(announced, "openConnection"), "openConnection")
        ELSE MergeLoop(announced, l, run.k + 1)

\* a variant of AfterMerge that dispatches the event of an entry twice
AfterMergeAnnouncesTwice(run, l, dialThrows) ==
    IF timer = 0
    THEN Return(run)
    ELSE LET peerData == l[run.k]
             event == [op |-> "peer", detail |-> peerData]
             announced == Do(Do(Do(run, event), event),
                             [op |-> "openConnection", id |-> peerData.id])
         IN  IF dialThrows
             THEN CatchOuter(Rejected(announced, "openConnection"), "openConnection")
             ELSE MergeLoop(announced, l, run.k + 1)
\* a variant of AfterMerge that suspends the run on the promise of
\* openConnection
AfterMergeAwaitsDial(run, l, dialThrows) ==
    IF timer = 0
    THEN Return(run)
    ELSE LET peerData == l[run.k]
             announced == Do(Do(run, [op |-> "peer", detail |-> peerData]),
                             [op |-> "openConnection", id |-> peerData.id])
         IN  IF dialThrows
             THEN CatchOuter(Rejected(announced, "openConnection"), "openConnection")
             ELSE [announced EXCEPT !.pc = "openConnection"]
\* a variant of AfterMerge that requests the connection before it dispatches
\* the event
AfterMergeDialFirst(run, l, dialThrows) ==
    IF timer = 0
    THEN Return(run)
    ELSE LET peerData == l[run.k]
             requested == Do(run, [op |-> "openConnection", id |-> peerData.id])
         IN  IF dialThrows
             THEN CatchOuter(Rejected(requested, "openConnection"), "openConnection")
             ELSE MergeLoop(Do(requested, [op |-> "peer", detail |-> peerData]), l, run.k + 1)
\* after await merge(): the guard, the event and the connection request,
\* then the next iteration up to its merge
AfterMerge(run, l, dialThrows) ==
    IF timer = 0
    THEN Return(run)
    ELSE LET peerData == l[run.k]
             announced == Do(Do(run, [op |-> "peer", detail |-> peerData]),
                             [op |-> "openConnection", id |-> peerData.id])
         IN  IF dialThrows
             THEN CatchOuter(Rejected(announced, "openConnection"), "openConnection")
             ELSE MergeLoop(announced, l, run.k + 1)

\* a variant of the timer callback that forgets the handle once the timer fired
TimerFireAutoClear(h) ==
    /\ Pending(h)
    /\ timers[h].remaining = 0
    /\ Len(runs) < RunCap
    /\ timers' = [timers EXCEPT ![h].state = "fired"]
    /\ runs' = Append(runs, Enter(NewRun(h)))
    /\ timer' = 0
    /\ last' = RunOp("fire", Len(runs'))
    /\ UNCHANGED <<list, init, onChain>>

\* the timer callback of start(): h is the handle of a timer that is due
TimerFire(h) ==
    /\ Pending(h)
    /\ timers[h].remaining = 0
    /\ Len(runs) < RunCap
    /\ timers' = [timers EXCEPT ![h].state = "fired"]
    /\ runs' = Append(runs, Enter(NewRun(h)))
    /\ last' = RunOp("fire", Len(runs'))
    /\ UNCHANGED <<timer, list, init, onChain>>

\* the host (a test, an embedding) calls _discoverBootstrapPeers itself
DirectInvoke ==
    /\ Len(runs) < RunCap
    /\ runs' = Append(runs, Enter(NewRun(0)))
    /\ last' = RunOp("invoke", Len(runs'))
    /\ UNCHANGED <<timer, list, init, onChain, timers>>

\* getNetwork() settles: it rejects, or resolves with a network
GetNetworkSettles(r) ==
    /\ runs[r].pc = "getNetwork"
    /\ \/ runs' = [runs EXCEPT ![r] =
                    Throw(Rejected(@, "getNetwork"), Error("getNetwork failed", <<>>))]
       \/ \E network \in NetworkIds, contractThrows \in BOOLEAN :
            runs' = [runs EXCEPT ![r] = AfterGetNetwork(@, network, contractThrows)]
    /\ last' = RunOp("getNetwork", r)
    /\ UNCHANGED <<timer, list, init, onChain, timers>>

\* getAllPeerIds() settles: it rejects, or resolves with an array of strings
GetAllPeerIdsSettles(r) ==
    /\ runs[r].pc = "getAllPeerIds"
    /\ \/ runs' = [runs EXCEPT ![r] =
                    CatchOuter(Rejected(@, "getAllPeerIds"), "getAllPeerIds")]
       \/ runs' = [runs EXCEPT ![r] = ResolveLoop(Found([@ EXCEPT !.peerIds = onChain]), list, 1)]
    /\ last' = RunOp("getAllPeerIds", r)
    /\ UNCHANGED <<timer, list, init, onChain, timers>>

\* a variant of FindPeerSettles that gives up the remaining identifiers once
\* the discoverer is stopped
FindPeerSettlesGuarded(r) ==
    /\ runs[r].pc = "findPeer"
    /\ LET run == runs[r]
           peerIdStr == run.peerIds[run.i]
       IN  \/ /\ list' = list
              /\ runs' = [runs EXCEPT ![r] =
                    ResolveLoop(LogError(Rejected(run, "findPeer"),
                                         "Could not lookup  multiaddrs for bootstrap peer",
                                         <<peerIdStr, "findPeer">>), list, run.i + 1)]
           \/ LET peerInfo == PeerInfoOf(peerIdFromString(peerIdStr))
                  pushed == Do(run, [op |-> "push", detail |-> peerInfo])
              IN  /\ list' = Append(list, peerInfo)
                  /\ runs' = [runs EXCEPT ![r] =
                        IF timer = 0 THEN Return(pushed)
                        ELSE ResolveLoop(pushed, list', run.i + 1)]
    /\ last' = RunOp("findPeer", r)
    /\ UNCHANGED <<timer, init, onChain, timers>>
\* a variant of FindPeerSettles that does not push a PeerInfo the list holds
\* already
FindPeerSettlesDedup(r) ==
    /\ runs[r].pc = "findPeer"
    /\ LET run == runs[r]
           peerIdStr == run.peerIds[run.i]
       IN  \/ /\ list' = list
              /\ runs' = [runs EXCEPT ![r] =
                    ResolveLoop(LogError(Rejected(run, "findPeer"),
                                         "Could not lookup  multiaddrs for bootstrap peer",
                                         <<peerIdStr, "findPeer">>), list, run.i + 1)]
           \/ LET peerInfo == PeerInfoOf(peerIdFromString(peerIdStr))
              IN  IF \E n \in DOMAIN list : list[n] = peerInfo
                  THEN /\ list' = list
                       /\ runs' = [runs EXCEPT ![r] = ResolveLoop(run, list, run.i + 1)]
                  ELSE /\ list' = Append(list, peerInfo)
                       /\ runs' = [runs EXCEPT ![r] =
                            ResolveLoop(Do(run, [op |-> "push", detail |-> peerInfo]),
                                        list', run.i + 1)]
    /\ last' = RunOp("findPeer", r)
    /\ UNCHANGED <<timer, init, onChain, timers>>
\* findPeer() settles: it rejects, or resolves with the PeerInfo, which is pushed
FindPeerSettles(r) ==
    /\ runs[r].pc = "findPeer"
    /\ LET run == runs[r]
           peerIdStr == run.peerIds[run.i]
       IN  \/ /\ list' = list
              /\ runs' = [runs EXCEPT ![r] =
                    ResolveLoop(LogError(Rejected(run, "findPeer"),
                                         "Could not lookup  multiaddrs for bootstrap peer",
                                         <<peerIdStr, "findPeer">>), list, run.i + 1)]
           \/ LET peerInfo == PeerInfoOf(peerIdFromString(peerIdStr))
              IN  /\ list' = Append(list, peerInfo)
                  /\ runs' = [runs EXCEPT ![r] =
                        ResolveLoop(Do(run, [op |-> "push", detail |-> peerInfo]),
                                    list', run.i + 1)]
    /\ last' = RunOp("findPeer", r)
    /\ UNCHANGED <<timer, init, onChain, timers>>

\* a variant of MergeSettles that forgets the timer handle when the run returns
MergeSettlesDisarm(r) ==
    /\ runs[r].pc = "merge"
    /\ \/ runs' = [runs EXCEPT ![r] = CatchOuter(Rejected(@, "merge"), "merge")]
       \/ \E dialThrows \in BOOLEAN :
            runs' = [runs EXCEPT ![r] = AfterMerge(@, list, dialThrows)]
    /\ timer' = IF runs'[r].pc = "done" THEN 0 ELSE timer
    /\ last' = RunOp("merge", r)
    /\ UNCHANGED <<list, init, onChain, timers>>

\* a variant of MergeSettles that logs a failed merge and goes on with the next
\* entry of the list
MergeSettlesSkips(r) ==
    /\ runs[r].pc = "merge"
    /\ \/ runs' = [runs EXCEPT ![r] =
                    MergeLoop(LogError(Rejected(@, "merge"),
                                       "Could not discover bootstrap peers", "merge"),
                              list, @.k + 1)]
       \/ \E dialThrows \in BOOLEAN :
            runs' = [runs EXCEPT ![r] = AfterMerge(@, list, dialThrows)]
    /\ last' = RunOp("merge", r)
    /\ UNCHANGED <<timer, list, init, onChain, timers>>
\* peerStore.merge() settles
MergeSettles(r) ==
    /\ runs[r].pc = "merge"
    /\ \/ runs' = [runs EXCEPT ![r] = CatchOuter(Rejected(@, "merge"), "merge")]
       \/ \E dialThrows \in BOOLEAN :
            runs' = [runs EXCEPT ![r] = AfterMerge(@, list, dialThrows)]
    /\ last' = RunOp("merge", r)
    /\ UNCHANGED <<timer, list, init, onChain, timers>>

\* a variant of the callback's catch that also stops the discoverer
CatchHandlerStops(r) ==
    /\ runs[r].pc = "rejected"
    /\ runs[r].origin # 0
    /\ runs' = [runs EXCEPT ![r] = [LogError(@, "caught", @.thrown) EXCEPT !.pc = "caught"]]
    /\ timer' = 0
    /\ last' = RunOp("catch", r)
    /\ UNCHANGED <<list, init, onChain, timers>>

\* a variant of the callback's catch that arms a new timer to try again
CatchHandlerRetries(r) ==
    /\ runs[r].pc = "rejected"
    /\ runs[r].origin # 0
    /\ runs' = [runs EXCEPT ![r] = [LogError(@, "caught", @.thrown) EXCEPT !.pc = "caught"]]
    /\ IF Len(timers) < MaxArms
       THEN /\ timers' = SetTimeout(init.timeout)
            /\ timer' = Len(timers')
       ELSE UNCHANGED <<timer, timers>>
    /\ last' = RunOp("catch", r)
    /\ UNCHANGED <<list, init, onChain>>
\* .catch(err => this.log.error(err)) of the timer callback
CatchHandler(r) ==
    /\ runs[r].pc = "rejected"
    /\ runs[r].origin # 0
    /\ runs' = [runs EXCEPT ![r] = [LogError(@, "caught", @.thrown) EXCEPT !.pc = "caught"]]
    /\ last' = RunOp("catch", r)
    /\ UNCHANGED <<timer, list, init, onChain, timers>>

Next ==
    \/ IsStartedCall
    \/ start
    \/ stop
    \/ Tick
    \/ DirectInvoke
    \/ \E h \in DOMAIN timers : TimerFire(h)
    \/ \E r \in DOMAIN runs : GetNetworkSettles(r)
    \/ \E r \in DOMAIN runs : GetAllPeerIdsSettles(r)
    \/ \E r \in DOMAIN runs : FindPeerSettles(r)
    \/ \E r \in DOMAIN runs : MergeSettles(r)
    \/ \E r \in DOMAIN runs : CatchHandler(r)

Spec == Init /\ [][Next]_vars

\* ------------------------------------------------------------------- dials
\* openConnection(peerData.id) returned a promise that is not awaited: the
\* n-th thing the run did is that call, and the promise has not settled yet
Dialing(run, n) ==
    /\ n \in DOMAIN run.trace
    /\ run.trace[n].op = "openConnection"
    /\ (n < Len(run.trace) =>
            ~(run.trace[n + 1].op = "rejected" /\ run.trace[n + 1].call = "openConnection"))
    /\ \A m \in DOMAIN run.trace : run.trace[m].op = "dial" => run.trace[m].dial # n

\* the promise of a dial settles and its .then or its .catch callback runs:
\* the first only traces, the second logs the failure
DialSettles(r, n) ==
    /\ Dialing(runs[r], n)
    /\ \E ok \in BOOLEAN :
        LET settled == Do(runs[r], [op |-> "dial", dial |-> n, ok |-> ok])
        IN  runs' = [runs EXCEPT ![r] =
                IF ok
                THEN settled
                ELSE Do(settled, [op |-> "log.error", msg |-> "could not dial bootstrap peer %p",
                                  id |-> runs[r].trace[n].id])]
    /\ last' = RunOp("dial", r)
    /\ UNCHANGED <<timer, list, init, onChain, timers>>

NextDial ==
    \/ Next
    \/ \E r \in DOMAIN runs : \E n \in DOMAIN runs[r].trace : DialSettles(r, n)

\* every call the pipeline awaits settles in the end, and so does the
\* microtask of the timer callback's catch; nothing is assumed of the dials
Settling(r) ==
    /\ WF_vars(r \in DOMAIN runs /\ GetNetworkSettles(r))
    /\ WF_vars(r \in DOMAIN runs /\ GetAllPeerIdsSettles(r))
    /\ WF_vars(r \in DOMAIN runs /\ FindPeerSettles(r))
    /\ WF_vars(r \in DOMAIN runs /\ MergeSettles(r))
    /\ WF_vars(r \in DOMAIN runs /\ CatchHandler(r))

\* the contract holds as many identifiers as the bound allows, so that a run
\* has several dials outstanding
InitDial == Init /\ Len(onChain) = MaxPeerIds

SpecDial == InitDial /\ [][NextDial]_vars /\ \A r \in 1..2 : Settling(r)
\* ------------------------------------------------------------ construction
\* evmbootstrap(init)(components): the factory and the constructor, as a
\* function of the options and of the environment (is there a global window)
DEFAULT_BOOTSTRAP_DISCOVERY_TIMEOUT == 1000
\* a string option that is null or undefined
Null == "null"
\* what is passed as options.ethereum: null, or an object with some of the
\* two methods the code looks for
Providers ==
    {[isNull |-> TRUE, methods |-> {}]} \cup
    {[isNull |-> FALSE, methods |-> m] : m \in SUBSET {"getNetwork", "request"}}
BootstrapInits ==
    [contractAddress : {Null, "0x1234"}, contractIndex : {Null, "0xabcd"},
     chainId : {Undefined, chainId}, ethereum : Providers, timeout : {Undefined, 0}]

\* new BrowserProvider(input)
BrowserProvider(input) == [isNull |-> FALSE, methods |-> {"getNetwork"}, wraps |-> input]

\* a variant of toEthersProvider that looks for request before getNetwork
toEthersProviderRequestFirst(input, window) ==
    IF ~input.isNull /\ window /\ "request" \in input.methods
    THEN [error |-> "", value |-> BrowserProvider(input)]
    ELSE IF ~input.isNull /\ "getNetwork" \in input.methods
    THEN [error |-> "", value |-> input]
    ELSE [error |-> "Invalid provider: must be an ethers Provider or EIP-1193 provider",
          value |-> input]

\* toEthersProvider(input): what it returns, or the message of what it throws
toEthersProvider(input, window) ==
    IF ~input.isNull /\ "getNetwork" \in input.methods
    THEN [error |-> "", value |-> input]
    ELSE IF ~input.isNull /\ window /\ "request" \in input.methods
    THEN [error |-> "", value |-> BrowserProvider(input)]
    ELSE [error |-> "Invalid provider: must be an ethers Provider or EIP-1193 provider",
          value |-> input]

\* the outcome of a construction: the message thrown, or "" and the fields of
\* the instance; normalized tells whether toEthersProvider was called
Thrown(message, normalized) ==
    [error |-> message, normalized |-> normalized, timeout |-> Undefined, _init |-> <<>>]

\* a variant of the constructor that checks the chain id before the index
constructorChainIdFirst(options, window) ==
    IF options.contractAddress = Null
    THEN Thrown("EVMBootstrap requires a contract address", FALSE)
    ELSE IF options.chainId = Undefined
    THEN Thrown("EVMBootstrap requires a chain id", FALSE)
    ELSE IF options.contractIndex = Null
    THEN Thrown("EVMBootstrap requires a contract index", FALSE)
    ELSE IF options.ethereum.isNull
    THEN Thrown("EVMBootstrap requires an ethereum provider", FALSE)
    ELSE LET ethereum == toEthersProvider(options.ethereum, window)
         IN  IF ethereum.error # ""
             THEN Thrown(ethereum.error, TRUE)
             ELSE [error |-> "", normalized |-> TRUE,
                   timeout |-> IF options.timeout = Undefined
                               THEN DEFAULT_BOOTSTRAP_DISCOVERY_TIMEOUT
                               ELSE options.timeout,
                   _init |-> [options EXCEPT !.ethereum = ethereum.value]]

\* EVMBootstrap.constructor
constructor(options, window) ==
    IF options.contractAddress = Null
    THEN Thrown("EVMBootstrap requires a contract address", FALSE)
    ELSE IF options.contractIndex = Null
    THEN Thrown("EVMBootstrap requires a contract index", FALSE)
    ELSE IF options.chainId = Undefined
    THEN Thrown("EVMBootstrap requires a chain id", FALSE)
    ELSE IF options.ethereum.isNull
    THEN Thrown("EVMBootstrap requires an ethereum provider", FALSE)
    ELSE LET ethereum == toEthersProvider(options.ethereum, window)
         IN  IF ethereum.error # ""
             THEN Thrown(ethereum.error, TRUE)
             ELSE [error |-> "", normalized |-> TRUE,
                   timeout |-> IF options.timeout = Undefined
                               THEN DEFAULT_BOOTSTRAP_DISCOVERY_TIMEOUT
                               ELSE options.timeout,
                   _init |-> [options EXCEPT !.ethereum = ethereum.value]]

\* no instance has been constructed yet
NoInstance == [constructed |-> FALSE]

InitNew ==
    /\ timer = 0
    /\ list = <<>>
    /\ init = NoInstance
    /\ timers = <<>>
    /\ runs = <<>>
    /\ onChain = <<>>
    /\ last = Op("none")

\* the host calls the factory: the variables hold the instance constructed
\* last, and a construction that throws leaves them alone
New ==
    \E options \in BootstrapInits, window \in BOOLEAN :
        LET made == constructor(options, window)
        IN  /\ last' = [op |-> "new", run |-> 0,
                        ret |-> IF made.error = "" THEN "ok" ELSE made.error,
                        options |-> options, window |-> window,
                        normalized |-> made.normalized]
            /\ IF made.error = ""
               THEN /\ init' = [constructed |-> TRUE, timeout |-> made.timeout,
                                _init |-> made._init]
                    /\ timer' = 0
                    /\ list' = <<>>
               ELSE UNCHANGED <<timer, list, init>>
            /\ UNCHANGED <<timers, runs, onChain>>

NextNew == New

SpecNew == InitNew /\ [][NextNew]_vars
\* ------------------------------------------------------- what is observed
RunsOf(h) == {r \in DOMAIN runs : runs[r].origin = h}
\* the run has ended: it returned, or its rejection reached whoever awaits it
Completed(run) ==
    \/ run.pc \in {"done", "caught"}
    \/ run.pc = "rejected" /\ run.origin = 0
\* the run ends in this step
Completes(r) ==
    /\ Completed(runs'[r])
    /\ r \in DOMAIN runs => ~Completed(runs[r])
\* how often any run has made the call or emitted the event `name`
Total(name) ==
    LET RECURSIVE Sum(_)
        Sum(n) == IF n = 0 THEN 0 ELSE CallsOf(runs[n], name) + Sum(n - 1)
    IN  Sum(Len(runs))
Range(s) == {s[n] : n \in DOMAIN s}
Sel(run, op) == SelectSeq(run.trace, LAMBDA c : c.op = op)
Parses(s) == peerIdFromString(s) # NoPeerId
\* the run went through its whole loop over the list
FinishedLoop(run) == run.pc = "done" /\ run.k = CallsOf(run, "merge") + 1
LookupError(c) ==
    c.op = "log.error" /\ c.msg = "Could not lookup  multiaddrs for bootstrap peer"
IsPrefix(s, t) == Len(s) <= Len(t) /\ \A n \in DOMAIN s : s[n] = t[n]
LastOf(run) == run.trace[Len(run.trace)]
WrongChain(run) == run.network \notin {Undefined, init.chainId}

\* ------------------------------------------------------------------ claims

\* C1: however often start() is called while the discoverer is started, at most
\* one timer is pending, such a call changes neither the handle nor the timer
\* (its remaining delay included) nor starts a run, and every timer that fired
\* has triggered exactly one pipeline execution, every other timer none.
C1_State ==
    /\ Cardinality(PendingTimers) <= 1
    /\ \A h \in DOMAIN timers :
         Cardinality(RunsOf(h)) = IF timers[h].state = "fired" THEN 1 ELSE 0
C1_Step == (timer # 0 /\ last'.op = "start") => UNCHANGED <<timer, timers, runs, list>>
C1_StartIdempotent == []C1_State /\ [][C1_Step]_vars
\* start() was called again after part of the delay had already passed
C1_Witness ==
    /\ last.op = "start"
    /\ timer # 0
    /\ timers[timer].state = "pending"
    /\ timers[timer].remaining < init.timeout

\* C2: stop() leaves the handle unset and no timer pending; a timer cancelled
\* before it fired stays cancelled and no pipeline execution ever has it as
\* its origin.
C2_State == \A h \in DOMAIN timers : timers[h].state = "cleared" => RunsOf(h) = {}
C2_Step ==
    /\ last'.op = "stop" => (timer' = 0 /\ PendingTimers' = {})
    /\ \A h \in DOMAIN timers : timers[h].state = "cleared" => timers'[h].state = "cleared"
C2_StopCancels == []C2_State /\ [][C2_Step]_vars
\* an arming was cancelled, and a later arming has fired since
C2_Witness ==
    /\ last.op # "stop"
    /\ \E h \in DOMAIN timers : timers[h].state = "cleared" /\ timers[h].remaining > 0
    /\ \E h \in DOMAIN timers : timers[h].state = "fired"

\* C3: a step taken while the timer handle is unset (after stop() and before
\* any later start()) emits no 'peer' event and requests no connection,
\* wherever the runs in flight are suspended.
C3_Step ==
    timer = 0 =>
        /\ Total("peer")' = Total("peer")
        /\ Total("openConnection")' = Total("openConnection")
C3_NoAnnounceAfterStop == [][C3_Step]_vars
\* a merge resolved after stop(): the run returned at the guard
C3_Witness ==
    \E r \in DOMAIN runs :
        /\ last = RunOp("merge", r)
        /\ timer = 0
        /\ runs[r].pc = "done"
        /\ LastOf(runs[r]).op = "merge"

\* C4: isStarted() returns true exactly when the timer handle is set, the
\* handle is unset right after construction, a set handle is one setTimeout
\* returned, and the call changes neither the handle nor the list.
C4_State ==
    /\ last.op = "new" => timer = 0
    /\ timer # 0 => timer \in DOMAIN timers
C4_Step ==
    last'.op = "isStarted" =>
        /\ last'.ret = (IF timer # 0 THEN "true" ELSE "false")
        /\ UNCHANGED <<timer, list, timers, runs>>
C4_IsStarted == []C4_State /\ [][C4_Step]_vars
\* isStarted() answered true on a started discoverer
C4_Witness == last.op = "isStarted" /\ last.ret = "true" /\ timer # 0

\* C5 as stated: when the run a timer triggered ends, the timer handle is unset.
C5_Original ==
    [][\A r \in DOMAIN runs' : (runs'[r].origin # 0 /\ Completes(r)) => timer' = 0]_vars
\* C5 as amended: neither the timer firing nor the end of the run it triggered
\* changes the timer handle; a discoverer nobody stopped is still started
\* after the run.
C5_Step ==
    \A r \in DOMAIN runs' :
        (runs'[r].origin # 0 /\ (r \notin DOMAIN runs \/ Completes(r))) => timer' = timer
C5_RunEndKeepsTimer == [][C5_Step]_vars
\* the run the current timer triggered has announced a peer and returned, and
\* the handle is still that timer's
C5_Witness ==
    \E r \in DOMAIN runs :
        /\ runs[r].origin = timer
        /\ timer # 0
        /\ runs[r].pc = "done"
        /\ Total("peer") > 0

\* C6: a set timer handle changes only in stop(): the timer firing does not
\* clear it, so isStarted() stays true after the delay has elapsed.
C6_Step == (timer # 0 /\ timer' # timer) => last'.op = "stop"
C6_OnlyStopUnsets == [][C6_Step]_vars
\* the timer has just fired and the handle is still set
C6_Witness == last.op = "fire" /\ timer # 0 /\ timers[timer].state = "fired"

\* C7: a run constructs the contract and calls getAllPeerIds only after it saw
\* the provider's network id equal to chainId; a run that saw another id makes
\* no call but getNetwork, emits nothing, and none of its steps changes the list.
C7_State ==
    \A r \in DOMAIN runs :
        /\ CallsOf(runs[r], "new Contract") + CallsOf(runs[r], "getAllPeerIds") > 0
             => runs[r].network = init.chainId
        /\ WrongChain(runs[r])
             => \A n \in DOMAIN runs[r].trace : runs[r].trace[n].op \in {"getNetwork", "log.error"}
C7_Step ==
    (last'.run # 0 /\ WrongChain(runs'[last'.run])) => list' = list
C7_ChainGuard == []C7_State /\ [][C7_Step]_vars
\* a run saw the other chain while peers of an earlier run are in the list
C7_Witness ==
    \E r \in DOMAIN runs : runs[r].network = otherChainId /\ Completed(runs[r]) /\ list # <<>>

\* C8: a directly invoked run that saw a network id other than chainId has
\* rejected with the "Wrong network" error, and the last thing it did before
\* was to log an error naming the observed and the expected id.
C8_WrongNetworkRaised ==
    \A r \in DOMAIN runs :
        (runs[r].origin = 0 /\ WrongChain(runs[r])) =>
            /\ runs[r].pc = "rejected"
            /\ runs[r].thrown = Error("Wrong network", <<init.chainId, runs[r].network>>)
            /\ LastOf(runs[r]) =
                 [op |-> "log.error",
                  msg |-> "Ethereum provider is connected to chainId, but expected",
                  detail |-> <<runs[r].network, init.chainId>>]
\* a direct call on a started discoverer saw the other chain
C8_Witness ==
    \E r \in DOMAIN runs : runs[r].origin = 0 /\ runs[r].network = otherChainId /\ timer # 0

\* C9 as stated: a directly invoked run raises an error to its caller only when
\* it obtained the network id and the id differs from chainId.
C9_Original ==
    \A r \in DOMAIN runs :
        (runs[r].origin = 0 /\ runs[r].pc = "rejected") => WrongChain(runs[r])

\* C10: a rejected run the timer callback started always has the callback's
\* catch to run; the catch logs the error and changes nothing else: not the
\* timer handle, the timers or the list.
C10_State ==
    \A r \in DOMAIN runs :
        /\ (runs[r].origin # 0 /\ runs[r].pc = "rejected") => ENABLED CatchHandler(r)
        /\ runs[r].pc = "caught" =>
             LastOf(runs[r]) = [op |-> "log.error", msg |-> "caught", detail |-> runs[r].thrown]
C10_Step ==
    \A r \in DOMAIN runs :
        (runs[r].origin # 0 /\ runs[r].pc = "rejected" /\ runs'[r] # runs[r]) =>
            /\ runs'[r].pc = "caught"
            /\ UNCHANGED <<timer, timers, list>>
C10_CallbackCatches == []C10_State /\ [][C10_Step]_vars
\* the wrong-network error of a timer-started run was caught and logged
C10_Witness ==
    \E r \in DOMAIN runs :
        /\ runs[r].pc = "caught"
        /\ runs[r].thrown.message = "Wrong network"
        /\ timer = runs[r].origin

\* ---------------------------------------------------------------- C11
\* C11: once the chain check has passed, a contract construction that throws
\* or a getAllPeerIds() that rejects ends the run at once: the call completes
\* without raising, and the last thing it did is log.error "Could not
\* discover bootstrap peers" with the cause.
C11_DiscoveryFailureSwallowed ==
    \A r \in DOMAIN runs : \A n \in DOMAIN runs[r].trace :
        LET run == runs[r]
            c == run.trace[n]
            cause == IF c.op = "rejected" THEN "getAllPeerIds" ELSE "boom"
        IN  (\/ c = [op |-> "new Contract", ok |-> FALSE]
             \/ c = [op |-> "rejected", call |-> "getAllPeerIds"])
            => /\ run.network = init.chainId
               /\ Len(run.trace) = n + 1
               /\ run.trace[n + 1] = [op |-> "log.error",
                                       msg |-> "Could not discover bootstrap peers",
                                       detail |-> cause]
               /\ run.pc = "done"
               /\ run.thrown = NoError

C11_Witness ==
    /\ \E r \in DOMAIN runs :
            [op |-> "rejected", call |-> "getAllPeerIds"] \in Range(runs[r].trace)
    /\ \E r \in DOMAIN runs :
            [op |-> "new Contract", ok |-> FALSE] \in Range(runs[r].trace)

\* ---------------------------------------------------------------- C12
\* C12: whatever array the contract returned and whichever of its identifiers
\* fail to parse or to resolve, each failing identifier is logged and skipped
\* and adds nothing to the list (so nothing to merge, announce or dial),
\* while every other identifier is still looked up and appended, and, in a
\* run that goes through its whole loop over the list, merged, announced and
\* dialled.
C12_PerIdentifierIsolation ==
    /\ Len(list) = Total("push")
    /\ \A r \in DOMAIN runs :
        LET run == runs[r]
            t == run.trace
            ids == run.peerIds
            good == SelectSeq(ids, Parses)
            bad == SelectSeq(ids, LAMBDA s : ~Parses(s))
            lookups == Sel(run, "findPeer")
            parseLogs == SelectSeq(t, LAMBDA c : LookupError(c) /\ c.detail[2] = "parse")
            settled == IF run.pc = "findPeer" THEN Len(lookups) - 1 ELSE Len(lookups)
        IN  /\ \A n \in DOMAIN t :
                /\ t[n].op = "findPeer" /\ n < Len(t)
                    => \/ t[n + 1] = [op |-> "push", detail |-> PeerInfoOf(t[n].id)]
                       \/ /\ t[n + 1] = [op |-> "rejected", call |-> "findPeer"]
                          /\ LookupError(t[n + 2])
                          /\ peerIdFromString(t[n + 2].detail[1]) = t[n].id
                          /\ t[n + 2].detail[2] = "findPeer"
                /\ t[n].op = "push" => t[n - 1].op = "findPeer"
                /\ t[n].op \in {"merge", "openConnection"}
                    => \E k \in DOMAIN list : t[n].id = list[k].id
                /\ t[n].op = "peer" => t[n].detail \in Range(list)
            /\ Len(lookups) <= Len(good)
            /\ \A m \in DOMAIN lookups : lookups[m].id = peerIdFromString(good[m])
            /\ Len(parseLogs) <= Len(bad)
            /\ \A m \in DOMAIN parseLogs : parseLogs[m].detail[1] = bad[m]
            /\ CallsOf(run, "push") + Len(SelectSeq(t, LAMBDA c :
                    c.op = "rejected" /\ c.call = "findPeer")) = settled
            /\ CallsOf(run, "log") = 1 /\ run.pc # "findPeer"
                => /\ Len(lookups) = Len(good)
                   /\ Len(parseLogs) = Len(bad)
            /\ FinishedLoop(run)
                => \A n \in DOMAIN t : t[n].op = "push"
                    => /\ MergeCall(t[n].detail) \in Range(t)
                       /\ [op |-> "peer", detail |-> t[n].detail] \in Range(t)
                       /\ [op |-> "openConnection", id |-> t[n].detail.id] \in Range(t)

C12_Witness ==
    \E r \in DOMAIN runs :
        /\ FinishedLoop(runs[r])
        /\ Len(runs[r].peerIds) = 2
        /\ \E n \in DOMAIN runs[r].trace : LookupError(runs[r].trace[n])
        /\ CallsOf(runs[r], "push") = 1
        /\ CallsOf(runs[r], "openConnection") = 1

\* ---------------------------------------------------------------- C13
\* C13: on an instance whose list was empty, a run that got n identifiers
\* from the contract, resolved all of them and went through its whole loop
\* (no stop(), no failing merge or dial) has made exactly n merges, each
\* under the configured tag name with {value, ttl} and with that peer's
\* addresses, dispatched exactly n 'peer' events carrying the PeerInfo values
\* in resolution order, and made exactly n openConnection requests, one per
\* identifier in the same order.
C13_FullBatch ==
    \A r \in DOMAIN runs :
        LET run == runs[r]
            n == Len(run.peerIds)
            info == [j \in 1..n |-> PeerInfoOf(peerIdFromString(run.peerIds[j]))]
            tag == IF init.tagName = "mytag"
                   THEN [name |-> "mytag", value |-> 42, ttl |-> 60000]
                   ELSE [name |-> "evmbootstrap", value |-> 50, ttl |-> Undefined]
        IN  /\ FinishedLoop(run)
            /\ CallsOf(run, "log") = 1
            /\ CallsOf(run, "push") = n
            /\ Total("push") = n
            => /\ list = info
               /\ Sel(run, "merge") =
                    [j \in 1..n |-> [op |-> "merge", id |-> info[j].id, tags |-> tag,
                                     multiaddrs |-> info[j].multiaddrs]]
               /\ Sel(run, "peer") = [j \in 1..n |-> [op |-> "peer", detail |-> info[j]]]
               /\ Sel(run, "openConnection") =
                    [j \in 1..n |-> [op |-> "openConnection", id |-> info[j].id]]

C13_Witness ==
    \E r \in DOMAIN runs :
        /\ runs[r].origin # 0
        /\ FinishedLoop(runs[r])
        /\ init.tagName = "mytag"
        /\ runs[r].peerIds = <<"QmXb", "QmXc">>
        /\ CallsOf(runs[r], "push") = 2
        /\ CallsOf(runs[r], "peer") = 2
        /\ timer = runs[r].origin

\* ---------------------------------------------------------------- C14
\* C14: stop() on an instance whose timer handle is unset (never started, or
\* stopped already) returns normally and changes nothing: the handle stays
\* unset, so isStarted() stays false, and the host timers, the list and the
\* runs in flight are what they were.
C14_Step ==
    timer = 0 /\ last'.op = "stop"
    => /\ last'.ret = "void"
       /\ timer' = 0
       /\ ~isStarted'
       /\ UNCHANGED <<list, timers, runs, init>>

C14_StopIdempotent == [][C14_Step]_vars

C14_Witness ==
    /\ last.op = "stop"
    /\ timers = <<>>
    /\ runs # <<>>

\* ---------------------------------------------------------------- C15
\* C15: every start() made while the handle is unset, the first one and each
\* one after a stop(), creates a new timer with the full configured delay and
\* keeps its handle, leaving every earlier timer as it was; a timer that
\* fires does so once, at the end of its delay and while its handle is the
\* one kept, and its run goes past the entry guard to the network-id query.
C15_Step ==
    /\ timer = 0 /\ last'.op = "start"
        => /\ timers' = Append(timers, [state |-> "pending", remaining |-> init.timeout])
           /\ timer' = Len(timers')
           /\ UNCHANGED <<runs, list>>
    /\ last'.op = "fire" /\ runs' # runs
        => LET h == runs'[last'.run].origin
           IN  /\ timer = h
               /\ timers[h] = [state |-> "pending", remaining |-> 0]
               /\ timers'[h].state = "fired"
               /\ RunsOf(h) = {}
               /\ runs'[last'.run].trace = <<[op |-> "getNetwork"]>>
    /\ \A h \in DOMAIN timers : timers[h].state = "fired" => timers'[h] = timers[h]

C15_Restart == [][C15_Step]_vars

\* the second arming, made after a stop(), has fired
C15_Witness ==
    /\ last.op = "fire"
    /\ runs[last.run].origin = 2
    /\ timers[1].state = "cleared"
    /\ timer = 2

\* ---------------------------------------------------------------- C16
\* C16: a construction with any of the four required options missing throws
\* the message of the first missing one in the order contract address,
\* contract index, chain id, provider; the four messages differ; the
\* provider was not passed to toEthersProvider; and no instance was made:
\* what the variables hold of an earlier instance is left alone.
RequiredMessages ==
    << "EVMBootstrap requires a contract address",
       "EVMBootstrap requires a contract index",
       "EVMBootstrap requires a chain id",
       "EVMBootstrap requires an ethereum provider" >>
MissingOptions(options) ==
    {n \in 1..4 : << options.contractAddress = Null, options.contractIndex = Null,
                     options.chainId = Undefined, options.ethereum.isNull >>[n]}
C16_State ==
    /\ \A m, n \in 1..4 : m # n => RequiredMessages[m] # RequiredMessages[n]
    /\ last.op = "new" /\ MissingOptions(last.options) # {}
        => /\ \E n \in MissingOptions(last.options) :
                /\ \A m \in MissingOptions(last.options) : n <= m
                /\ last.ret = RequiredMessages[n]
           /\ ~last.normalized
C16_Step ==
    last'.op = "new" /\ MissingOptions(last'.options) # {}
    => UNCHANGED <<timer, list, init, timers, runs>>
C16_ValidationOrder == []C16_State /\ [][C16_Step]_vars

\* the index and the chain id are both missing, and so is the provider
C16_Witness ==
    /\ last.op = "new"
    /\ MissingOptions(last.options) = {2, 3, 4}
    /\ last.ret = "EVMBootstrap requires a contract index"

\* ---------------------------------------------------------------- C17
\* C17: a construction with the four required options present succeeds in
\* exactly two cases: the provider has getNetwork, and then the instance
\* holds that very provider, with or without a request method; or it has
\* request only and there is a global window, and then the instance holds a
\* BrowserProvider around it. In every other case it throws the "Invalid
\* provider" error.
C17_ProviderShapes ==
    last.op = "new" /\ MissingOptions(last.options) = {}
    => LET input == last.options.ethereum
       IN  /\ last.normalized
           /\ "getNetwork" \in input.methods
                => last.ret = "ok" /\ init._init.ethereum = input
           /\ "getNetwork" \notin input.methods /\ "request" \in input.methods /\ last.window
                => /\ last.ret = "ok"
                   /\ init._init.ethereum # input
                   /\ init._init.ethereum.wraps = input
           /\ "getNetwork" \notin input.methods /\ ~("request" \in input.methods /\ last.window)
                => last.ret = "Invalid provider: must be an ethers Provider or EIP-1193 provider"
           /\ last.ret = "ok"
                => init._init = [last.options EXCEPT !.ethereum = init._init.ethereum]

\* a wallet-style provider outside a browser
C17_Witness ==
    /\ last.op = "new"
    /\ MissingOptions(last.options) = {}
    /\ last.options.ethereum.methods = {"request"}
    /\ ~last.window
    /\ last.ret # "ok"

\* ---------------------------------------------------------------- C18
\* C18: the list only grows at its end: after every step the list before it
\* is a prefix of the list after it; a step that changes it is a findPeer
\* that resolved within a run, which pushes exactly one entry; start(),
\* stop(), isStarted() and every other step leave it as it is.
C18_Step ==
    /\ IsPrefix(list, list')
    /\ list' # list
        => /\ last'.op = "findPeer"
           /\ Len(list') = Len(list) + 1
           /\ CallsOf(runs'[last'.run], "push") = CallsOf(runs[last'.run], "push") + 1
           /\ LET run == runs[last'.run]
              IN  list'[Len(list')] = PeerInfoOf(peerIdFromString(run.peerIds[run.i]))
    /\ Total("push")' - Total("push") = Len(list') - Len(list)
    /\ last'.op \in {"start", "stop", "isStarted"} => list' = list
C18_AppendOnly == [][C18_Step]_vars

\* stop() was called on an instance that has discovered peers
C18_Witness ==
    /\ last.op = "stop"
    /\ Len(list) >= 2

\* ---------------------------------------------------------------- C19
\* C19: a call of _discoverBootstrapPeers that begins while the timer handle
\* is unset returns at once: the run is over with nothing thrown and without
\* having called, logged, pushed or dispatched anything, and the step
\* changes neither the list nor the handle nor the host timers.
C19_State ==
    \A r \in DOMAIN runs :
        runs[r].trace = <<>>
        => /\ runs[r].pc = "done"
           /\ runs[r].thrown = NoError
           /\ runs[r].network = Undefined
C19_Step ==
    last'.op \in {"invoke", "fire"} /\ runs' # runs /\ timer = 0
    => /\ runs'[last'.run].trace = <<>>
       /\ runs'[last'.run].origin = 0
       /\ UNCHANGED <<list, timer, timers>>
       /\ \A r \in DOMAIN runs : runs'[r] = runs[r]
C19_EntryGuard == []C19_State /\ [][C19_Step]_vars

\* called by the host after a stop(), on an instance that has discovered peers
C19_Witness ==
    /\ last.op = "invoke"
    /\ runs[last.run].trace = <<>>
    /\ timer = 0
    /\ timers # <<>>
    /\ list # <<>>

\* ---------------------------------------------------------------- C20
\* C20: a run started by a timer whose handle is no longer the one kept (a
\* stop() was called while the run was in flight, whether or not a start()
\* followed it) dispatches no further 'peer' event and makes no further
\* openConnection request.
C20_Step ==
    \A r \in DOMAIN runs :
        runs[r].origin # 0 /\ timer # runs[r].origin
        => /\ CallsOf(runs'[r], "peer") = CallsOf(runs[r], "peer")
           /\ CallsOf(runs'[r], "openConnection") = CallsOf(runs[r], "openConnection")
C20_Original == [][C20_Step]_vars

\* ---------------------------------------------------------------- C21
\* C21: of the runs started by a timer, at most one at a time is between its
\* entry guard and its completion.
C21_Original ==
    Cardinality({r \in DOMAIN runs : runs[r].origin # 0 /\ ~Completed(runs[r])}) <= 1

\* ---------------------------------------------------------------- C22
\* C22: in the trace of a run every findPeer call and every push comes before
\* the first merge; the merges, events and connection requests come in
\* rounds of merge, 'peer', openConnection, the j-th round being about entry
\* j of the list; while a merge is pending it is the last thing the run has
\* done; and an event is only dispatched in the step in which the merge of
\* its round settles.
C22_State ==
    \A r \in DOMAIN runs :
        LET run == runs[r]
            t == run.trace
            rounds == SelectSeq(t, LAMBDA c : c.op \in {"merge", "peer", "openConnection"})
        IN  /\ \A m, n \in DOMAIN t :
                t[m].op \in {"findPeer", "push"} /\ t[n].op = "merge" => m < n
            /\ \A m \in DOMAIN rounds :
                LET j == (m + 2) \div 3
                IN  /\ j \in DOMAIN list
                    /\ rounds[m] = CASE m % 3 = 1 -> MergeCall(list[j])
                                     [] m % 3 = 2 -> [op |-> "peer", detail |-> list[j]]
                                     [] OTHER -> [op |-> "openConnection", id |-> list[j].id]
            /\ run.pc = "merge" => LastOf(run).op = "merge" /\ Len(rounds) = 3 * run.k - 2
            /\ run.pc = "findPeer" => LastOf(run).op = "findPeer" /\ rounds = <<>>
C22_Step ==
    \A r \in DOMAIN runs :
        CallsOf(runs'[r], "peer") # CallsOf(runs[r], "peer")
        => /\ runs[r].pc = "merge"
           /\ last' = RunOp("merge", r)
           /\ CallsOf(runs'[r], "peer") = CallsOf(runs[r], "peer") + 1
           /\ CallsOf(runs'[r], "openConnection") = CallsOf(runs[r], "openConnection") + 1
C22_Sequential == []C22_State /\ [][C22_Step]_vars

\* the first entry has gone through its round and the merge of the second,
\* resolved by the same run, is pending
C22_Witness ==
    \E r \in DOMAIN runs :
        /\ runs[r].pc = "merge"
        /\ runs[r].k = 2
        /\ CallsOf(runs[r], "push") = 2
        /\ CallsOf(runs[r], "openConnection") = 1

\* ---------------------------------------------------------------- C23
\* C23: the settling of a dial changes nothing but the trace of its run: the
\* run stays where it is suspended or stays completed as it was, the other
\* runs, the list and the timers are untouched, and a dial that failed has
\* been logged; and, provided every call the pipeline awaits settles, every
\* run that has begun completes, whether or not any dial ever settles.
C23_Step ==
    last'.op = "dial" /\ runs' # runs
    => LET r == last'.run
           t == runs'[r].trace
       IN  /\ runs' = [runs EXCEPT ![r].trace = t]
           /\ IsPrefix(runs[r].trace, t)
           /\ t[Len(runs[r].trace) + 1].op = "dial"
           /\ IF t[Len(runs[r].trace) + 1].ok
              THEN Len(t) = Len(runs[r].trace) + 1
              ELSE /\ Len(t) = Len(runs[r].trace) + 2
                   /\ LastOf(runs'[r]) =
                        [op |-> "log.error", msg |-> "could not dial bootstrap peer %p",
                         id |-> runs[r].trace[t[Len(runs[r].trace) + 1].dial].id]
           /\ UNCHANGED <<timer, list, timers, init>>
C23_RunDone(r) == r \in DOMAIN runs /\ Completed(runs[r])
C23_FireAndForget ==
    /\ [][C23_Step]_vars
    /\ \A r \in 1..2 : (r \in DOMAIN runs) ~> C23_RunDone(r)

\* a dial failed, the run went on to announce a later entry and has gone
\* through its whole loop, and another of its dials has still not settled
C23_Witness ==
    \E r \in DOMAIN runs :
        /\ FinishedLoop(runs[r])
        /\ \E n \in DOMAIN runs[r].trace : Dialing(runs[r], n)
        /\ \E m, n \in DOMAIN runs[r].trace :
            /\ m < n
            /\ runs[r].trace[m].op = "dial" /\ ~runs[r].trace[m].ok
            /\ runs[r].trace[n].op = "peer"

\* ---------------------------------------------------------------- C24
\* C24: when the i-th merge of a run rejects, the next thing the run does is
\* log.error "Could not discover bootstrap peers" with the cause, and it
\* then is over with nothing thrown, having made no merge, event or
\* connection request after the rejection: i merges in all, and i - 1 events
\* and i - 1 connection requests, those of the entries before i, which stay
\* in its trace as they were.
C24_State ==
    \A r \in DOMAIN runs : \A n \in DOMAIN runs[r].trace :
        LET run == runs[r]
            t == run.trace
            i == CallsOf(run, "merge")
        IN  t[n].op = "rejected" /\ t[n].call = "merge"
            => /\ n < Len(t)
               /\ t[n + 1] = [op |-> "log.error", msg |-> "Could not discover bootstrap peers",
                              detail |-> "merge"]
               /\ \A m \in DOMAIN t :
                    m > n => t[m].op \notin {"merge", "peer", "openConnection", "findPeer"}
               /\ run.pc = "done" /\ run.thrown = NoError
               /\ run.k = i
               /\ t[n - 1] = MergeCall(list[i])
               /\ Sel(run, "peer") = [j \in 1..(i - 1) |-> [op |-> "peer", detail |-> list[j]]]
               /\ Sel(run, "openConnection") =
                    [j \in 1..(i - 1) |-> [op |-> "openConnection", id |-> list[j].id]]
C24_Step == \A r \in DOMAIN runs : IsPrefix(runs[r].trace, runs'[r].trace)
C24_MergeFailureAborts == []C24_State /\ [][C24_Step]_vars

\* the merge of the second entry failed after the first entry was announced
C24_Witness ==
    \E r \in DOMAIN runs :
        /\ \E n \in DOMAIN runs[r].trace :
            runs[r].trace[n].op = "rejected" /\ runs[r].trace[n].call = "merge"
        /\ CallsOf(runs[r], "merge") = 2
        /\ CallsOf(runs[r], "peer") = 1
        /\ CallsOf(runs[r], "openConnection") = 1

\* ---------------------------------------------------------------- C25
\* C25: a run that goes through its whole loop has merged, announced and
\* dialled every entry of the list as it is when the loop ends, in list
\* order, whichever run appended it; and when that run is the k-th of the
\* instance and each of the k runs has resolved all n identifiers of the
\* contract, the list holds k * n entries and the run has made k * n merges,
\* k * n events and k * n connection requests.
C25_AllResolved(run) ==
    /\ run.pc \notin {"entry", "getNetwork", "getAllPeerIds", "findPeer"}
    /\ CallsOf(run, "log") = 1
    /\ CallsOf(run, "findPeer") = Len(onChain)
    /\ \A n \in DOMAIN run.trace :
        ~(run.trace[n].op = "rejected" /\ run.trace[n].call = "findPeer")
C25_Step ==
    \A r \in DOMAIN runs :
        FinishedLoop(runs'[r]) /\ ~FinishedLoop(runs[r])
        => LET run == runs'[r]
               k == Len(runs')
               n == Len(onChain)
           IN  /\ Sel(run, "merge") = [j \in DOMAIN list' |-> MergeCall(list'[j])]
               /\ Sel(run, "peer") = [j \in DOMAIN list' |-> [op |-> "peer", detail |-> list'[j]]]
               /\ Sel(run, "openConnection") =
                    [j \in DOMAIN list' |-> [op |-> "openConnection", id |-> list'[j].id]]
               /\ (\A q \in DOMAIN runs' : C25_AllResolved(runs'[q]))
                    => /\ Len(list') = k * n
                       /\ CallsOf(run, "merge") = k * n
                       /\ CallsOf(run, "peer") = k * n
                       /\ CallsOf(run, "openConnection") = k * n
C25_NoDeduplication == [][C25_Step]_vars

\* two start/fire/stop cycles, one after the other, of one identifier each
C25_Witness ==
    /\ Len(runs) = 2
    /\ timer = 0
    /\ \A r \in {1, 2} :
        /\ runs[r].origin = r
        /\ FinishedLoop(runs[r])
        /\ CallsOf(runs[r], "push") = 1
        /\ CallsOf(runs[r], "peer") = r
    /\ Len(list) = 2
    /\ list[1] = list[2]

\* ---------------------------------------------------------------- C26
\* C26: the events of a run are about different entries of the list: its
\* j-th event carries entry j and its j-th connection request is for the
\* peer of entry j, so that no entry has more than one of either from that
\* run, however the list grows while the run is looping.
C26_AtMostOncePerEntry ==
    \A r \in DOMAIN runs :
        LET events == Sel(runs[r], "peer")
            dials == Sel(runs[r], "openConnection")
        IN  /\ Len(events) <= Len(list)
            /\ \A j \in DOMAIN events : events[j].detail = list[j]
            /\ Len(dials) = Len(events)
            /\ \A j \in DOMAIN dials : dials[j].id = list[j].id

\* two runs, each of which appended one entry and announced both entries: the
\* one that appended first was looping when the other appended
C26_Witness ==
    /\ Len(runs) = 2
    /\ Len(list) = 2
    /\ \A r \in DOMAIN runs :
        /\ CallsOf(runs[r], "push") = 1
        /\ CallsOf(runs[r], "peer") = 2

\* ---------------------------------------------------------------- C27
\* C27: no timer has started more than one run; a step of a run, its
\* completion or failure included, creates neither a timer nor a run and
\* touches no timer; and start() called while the handle kept is that of a
\* timer that has fired arms nothing and starts nothing.
C27_State == \A h \in DOMAIN timers : Cardinality(RunsOf(h)) <= 1
C27_Step ==
    /\ last'.op \in {"getNetwork", "getAllPeerIds", "findPeer", "merge", "catch"}
        => /\ timers' = timers
           /\ Len(runs') = Len(runs)
    /\ last'.op = "start" /\ timer # 0 /\ timers[timer].state = "fired"
        => /\ UNCHANGED <<timer, timers, runs>>
           /\ PendingTimers' = {}
C27_NoAutoRetry == []C27_State /\ [][C27_Step]_vars

\* start() was called after the run of the arming had failed and been caught
C27_Witness ==
    /\ last.op = "start"
    /\ timer # 0
    /\ timers[timer].state = "fired"
    /\ PendingTimers = {}
    /\ \E r \in RunsOf(timer) : runs[r].pc = "caught"

\* ---------------------------------------------------------------- C28
\* C28: while the timer handle is unset a run in flight is not cancelled: the
\* call it awaits can still settle; when its findPeer settles the result is
\* pushed or the failure logged as ever, and the run goes on to the next
\* identifier until all that parse have been looked up; a merge that starts
\* then is the first of the run's loop, started by the step that ends the
\* identifier loop; and a merge that settles then ends the run, with no event,
\* no connection request and no further merge.
C28_State ==
    \A r \in DOMAIN runs :
        /\ runs[r].pc = "getNetwork" => ENABLED GetNetworkSettles(r)
        /\ runs[r].pc = "getAllPeerIds" => ENABLED GetAllPeerIdsSettles(r)
        /\ runs[r].pc = "findPeer" => ENABLED FindPeerSettles(r)
        /\ runs[r].pc = "merge" => ENABLED MergeSettles(r)
C28_Step ==
    timer = 0 =>
        \A r \in DOMAIN runs :
            LET run == runs[r]
                after == runs'[r]
            IN  /\ last' = RunOp("findPeer", r) /\ after # run
                    => /\ \/ /\ list' = Append(list,
                                    PeerInfoOf(peerIdFromString(run.peerIds[run.i])))
                             /\ CallsOf(after, "push") = CallsOf(run, "push") + 1
                          \/ /\ list' = list
                             /\ \E n \in DOMAIN after.trace :
                                    /\ n > Len(run.trace)
                                    /\ LookupError(after.trace[n])
                                    /\ after.trace[n].detail = <<run.peerIds[run.i], "findPeer">>
                       /\ after.pc = "findPeer" => after.i > run.i
                       /\ after.pc # "findPeer"
                            => /\ after.i = Len(run.peerIds) + 1
                               /\ CallsOf(after, "findPeer") = Len(SelectSeq(run.peerIds, Parses))
                               /\ after.pc = IF list' = <<>> THEN "done" ELSE "merge"
                /\ CallsOf(after, "merge") # CallsOf(run, "merge")
                    => /\ run.pc \in {"getAllPeerIds", "findPeer"}
                       /\ CallsOf(after, "merge") = 1
                       /\ after.k = 1
                /\ last' = RunOp("merge", r) /\ after # run
                    => /\ after.pc = "done"
                       /\ CallsOf(after, "peer") = CallsOf(run, "peer")
                       /\ CallsOf(after, "openConnection") = CallsOf(run, "openConnection")
C28_NoMidFlightCancel == []C28_State /\ [][C28_Step]_vars

\* after a stop(), the last findPeer of a run started by a timer has settled:
\* its result was pushed and the only merge made after the stop() has started
C28_Witness ==
    \E r \in DOMAIN runs :
        /\ last = RunOp("findPeer", r)
        /\ timer = 0
        /\ runs[r].origin # 0
        /\ runs[r].pc = "merge"
        /\ CallsOf(runs[r], "push") = 2

====
